---- MODULE Spec2Model ----
(***************************************************************************)
(* Model of the Todo component (src/src/comonents/todo.jsx): the three     *)
(* useState hooks, the persistence effect, the three handlers and the      *)
(* localStorage slot "todos".                                              *)
(*                                                                         *)
(* React semantics the component relies on, as modelled here:              *)
(*  - a set-state call does not change the state; it appends an update to  *)
(*    the hook's queue, and the next render reduces the queue over the     *)
(*    committed state.  A handler therefore reads the values committed by  *)
(*    the last render (its closure), whatever is queued;                   *)
(*  - an effect with dependency [todos] is scheduled by the first render   *)
(*    and by every render that commits a new todos array, and is flushed   *)
(*    before the next render;                                              *)
(*  - an exception thrown while rendering or in an effect, with no error   *)
(*    boundary above the component, unmounts the tree.                     *)
(*                                                                         *)
(* Strings are sequences of symbols.  JSON text is a sequence of tokens.   *)
(***************************************************************************)
EXTENDS Integers, Sequences, FiniteSets, TLC

\* ---- bounds ----------------------------------------------------------------
MaxId == 2        \* how many distinct values crypto.randomUUID() can return
MaxPending == 2   \* most set-state calls queued on one hook before a render

\* ---- strings ---------------------------------------------------------------
Q == "\""
BS == "\\"
\* The characters typed: whitespace, and the character JSON must escape.
Chars == {" ", Q}
\* What is typed into the text field: nothing, whitespace only, and a text
\* with whitespace around it and inside it.
Inputs == {<<>>, <<" ">>, <<" ", Q, " ", Q, " ">>}
PickedDate == <<"2025-01-01">>
DateInputs == {<<>>, PickedDate}
\* new Date().toISOString().split('T')[0]
Today == <<"2026-11-05">>
IDs == {<<ToString(i)>> : i \in 1..MaxId}

RECURSIVE TrimStart(_)
TrimStart(s) ==
  IF s # <<>> /\ Head(s) = " " THEN TrimStart(Tail(s)) ELSE s

RECURSIVE TrimEnd(_)
TrimEnd(s) ==
  IF s # <<>> /\ s[Len(s)] = " " THEN TrimEnd(SubSeq(s, 1, Len(s) - 1)) ELSE s

\* addTodo without .trim()
TrimKept(s) == s

\* String.prototype.trim
Trim(s) == TrimEnd(TrimStart(s))

\* ---- JSON ------------------------------------------------------------------
\* a string written between quotes as it is
EscapeNone(s) == s

RECURSIVE Escape(_)
Escape(s) ==
  IF s = <<>> THEN <<>>
  ELSE IF Head(s) \in {Q, BS} THEN <<BS, Head(s)>> \o Escape(Tail(s))
  ELSE <<Head(s)>> \o Escape(Tail(s))

\* JSON.stringify of a string
Quote(s) == <<Q>> \o Escape(s) \o <<Q>>

\* JSON.stringify of a task: keys in insertion order
StringifyTask(t) ==
  <<"{", "id:">> \o Quote(t.id) \o <<",", "text:">> \o Quote(t.text)
    \o <<",", "completed:", IF t.completed THEN "true" ELSE "false">>
    \o <<",", "date:">> \o Quote(t.date) \o <<"}">>

RECURSIVE StringifyItems(_)
StringifyItems(l) ==
  IF l = <<>> THEN <<>>
  ELSE IF Len(l) = 1 THEN StringifyTask(l[1])
  ELSE StringifyTask(l[1]) \o <<",">> \o StringifyItems(Tail(l))

\* JSON.stringify(todos)
Stringify(l) == <<"[">> \o StringifyItems(l) \o <<"]">>

Fail == [ok |-> FALSE, val |-> <<>>, next |-> 0]

RECURSIVE ReadChars(_, _, _)
ReadChars(t, i, acc) ==
  IF i > Len(t) THEN Fail
  ELSE IF t[i] = Q THEN [ok |-> TRUE, val |-> acc, next |-> i + 1]
  ELSE IF t[i] = BS
    THEN IF i + 1 <= Len(t) /\ t[i + 1] \in {Q, BS}
         THEN ReadChars(t, i + 2, Append(acc, t[i + 1]))
         ELSE Fail
  ELSE ReadChars(t, i + 1, Append(acc, t[i]))

\* a JSON string starting at token i
ParseString(t, i) ==
  IF i <= Len(t) /\ t[i] = Q THEN ReadChars(t, i + 1, <<>>) ELSE Fail

Tok(t, i, s) == i <= Len(t) /\ t[i] = s

\* the fields of a task object, once its three strings are read
TaskOf(t, a, b, c) ==
  [ok |-> TRUE,
   val |-> [id |-> a.val, text |-> b.val,
            completed |-> (t[b.next + 2] = "true"), date |-> c.val],
   next |-> c.next + 1]

\* a task object starting at token i.  Each part is bound to its value as soon
\* as it is read.
ParseDate(t, a, b) ==
  IF ~(b.ok /\ Tok(t, b.next, ",") /\ Tok(t, b.next + 1, "completed:")
         /\ b.next + 2 <= Len(t) /\ t[b.next + 2] \in {"true", "false"}
         /\ Tok(t, b.next + 3, ",") /\ Tok(t, b.next + 4, "date:")) THEN Fail
  ELSE CHOOSE r \in {IF c.ok /\ Tok(t, c.next, "}") THEN TaskOf(t, a, b, c) ELSE Fail :
                       c \in {ParseString(t, b.next + 5)}} : TRUE

ParseText(t, a) ==
  IF ~(a.ok /\ Tok(t, a.next, ",") /\ Tok(t, a.next + 1, "text:")) THEN Fail
  ELSE CHOOSE r \in {ParseDate(t, a, b) : b \in {ParseString(t, a.next + 2)}} : TRUE

ParseTask(t, i) ==
  IF ~(Tok(t, i, "{") /\ Tok(t, i + 1, "id:")) THEN Fail
  ELSE CHOOSE r \in {ParseText(t, a) : a \in {ParseString(t, i + 2)}} : TRUE

RECURSIVE ParseItems(_, _, _)
ParseRest(t, o, acc) ==
  IF ~o.ok THEN Fail
  ELSE IF Tok(t, o.next, ",") THEN ParseItems(t, o.next + 1, Append(acc, o.val))
  ELSE IF Tok(t, o.next, "]") /\ o.next = Len(t)
    THEN [ok |-> TRUE, val |-> Append(acc, o.val), next |-> o.next + 1]
  ELSE Fail

\* the tasks of an array, from token i up to the closing bracket
ParseItems(t, i, acc) ==
  CHOOSE r \in {ParseRest(t, o, acc) : o \in {ParseTask(t, i)}} : TRUE

\* JSON.parse(stored): ok = FALSE is a SyntaxError; isArray = FALSE is a value
\* other than an array.  Exact on the texts the model stores.
JSONParse(t) ==
  IF t = <<"null">> THEN [ok |-> TRUE, isArray |-> FALSE, val |-> <<>>]
  ELSE IF t = <<"[", "]">> THEN [ok |-> TRUE, isArray |-> TRUE, val |-> <<>>]
  ELSE IF Tok(t, 1, "[")
    THEN LET r == ParseItems(t, 2, <<>>) IN
         [ok |-> r.ok, isArray |-> TRUE, val |-> r.val]
  ELSE [ok |-> FALSE, isArray |-> FALSE, val |-> <<>>]

\* ---- state ------------------------------------------------------------------
VARIABLES
  storage,          \* the localStorage slot "todos": [has, text]
  phase,            \* "mounted", or "crashed" once an exception unmounted the tree
  error,            \* the exception that unmounted the tree, "none" while mounted
  todos,            \* useState #1, as committed by the last render
  inputValue,       \* useState #2
  inputDate,        \* useState #3
  todosQueue,       \* setTodos calls not yet rendered
  inputValueQueue,  \* setInputValue calls not yet rendered
  inputDateQueue,   \* setInputDate calls not yet rendered
  effectPending,    \* the [todos] effect is scheduled and not yet flushed
  issued,           \* every id crypto.randomUUID() has returned so far
  ignored           \* the last handler call was an addTodo that returned early

vars == <<storage, phase, error, todos, inputValue, inputDate, todosQueue,
          inputValueQueue, inputDateQueue, effectPending, issued, ignored>>

NoItem == [has |-> FALSE, text |-> <<>>]
Item(t) == [has |-> TRUE, text |-> t]

Ids(l) == {l[i].id : i \in 1..Len(l)}

\* ---- the todos reducers ----------------------------------------------------
\* completed: true in place of !t.completed
ToggleInSetsTrue(prev, id) ==
  [i \in 1..Len(prev) |->
     IF prev[i].id = id THEN [prev[i] EXCEPT !.completed = TRUE] ELSE prev[i]]

\* prev.map((t) => (t.id === id ? { ...t, completed: !t.completed } : t))
ToggleIn(prev, id) ==
  [i \in 1..Len(prev) |->
     IF prev[i].id = id THEN [prev[i] EXCEPT !.completed = ~prev[i].completed]
     ELSE prev[i]]

\* === in place of !== in the filter
DeleteInKeepsMatch(prev, id) == SelectSeq(prev, LAMBDA t : t.id = id)

\* prev.filter((t) => t.id !== id)
RECURSIVE DeleteIn(_, _)
DeleteIn(prev, id) ==
  IF prev = <<>> THEN <<>>
  ELSE IF Head(prev).id # id THEN <<Head(prev)>> \o DeleteIn(Tail(prev), id)
  ELSE DeleteIn(Tail(prev), id)

\* the new task of addTodo
NewTask(id, text, date) ==
  [id |-> id, text |-> text, completed |-> FALSE,
   date |-> IF date # <<>> THEN date ELSE Today]

\* the argument of setTodos in addTodo: [...todos, {...}] over the rendered todos
AddTo(rendered, task) == Append(rendered, task)

SetUpdate(l) == [kind |-> "set", id |-> <<>>, val |-> l]
ToggleUpdate(id) == [kind |-> "toggle", id |-> id, val |-> <<>>]
DeleteUpdate(id) == [kind |-> "delete", id |-> id, val |-> <<>>]

\* one queued setTodos call applied to the state before it: a value replaces
\* it, a function is called on it
ApplyUpdate(prev, u) ==
  CASE u.kind = "set" -> u.val
    [] u.kind = "toggle" -> ToggleIn(prev, u.id)
    [] u.kind = "delete" -> DeleteIn(prev, u.id)

\* the render's reduction of a hook queue over the committed state
RECURSIVE Reduce(_, _)
Reduce(prev, queue) ==
  IF queue = <<>> THEN prev
  ELSE Reduce(ApplyUpdate(prev, Head(queue)), Tail(queue))

\* a hook whose updates are plain values: the last one wins
LastOr(cur, queue) == IF queue = <<>> THEN cur ELSE queue[Len(queue)]

\* ---- mount -----------------------------------------------------------------
\* useState(() => { const stored = localStorage.getItem("todos");
\*                  return stored ? JSON.parse(stored) : []; })
\* followed by the first render of the component body, which reads
\* todos.length and calls todos.map
LoadTodos(slot) ==
  IF ~slot.has \/ slot.text = <<>> THEN [error |-> "none", val |-> <<>>]
  ELSE LET r == JSONParse(slot.text) IN
       IF ~r.ok THEN [error |-> "SyntaxError", val |-> <<>>]
       ELSE IF ~r.isArray THEN [error |-> "TypeError", val |-> <<>>]
       ELSE [error |-> "none", val |-> r.val]

\* an id taken from the length of the rendered list
RandomUUIDFromLength == <<ToString(Len(todos) + 1)>>

\* crypto.randomUUID(): a value it has not returned before.  Ids are opaque
\* (only compared for equality), so the least unused one stands for any.
RandomUUID ==
  LET Unused(i) == <<ToString(i)>> \notin issued IN
  <<ToString(CHOOSE i \in 1..MaxId : Unused(i) /\ \A j \in 1..(i - 1) : ~Unused(j))>>

SampleList ==
  <<[id |-> <<"1">>, text |-> <<Q>>, completed |-> TRUE, date |-> PickedDate]>>
Truncated(t) == SubSeq(t, 1, Len(t) - 1)
\* what the slot can hold when the page is opened: nothing, the empty string,
\* a list the component wrote, a cut-off text, JSON that is no array
InitialSlots ==
  {NoItem, Item(<<>>), Item(Stringify(<<>>)), Item(Stringify(SampleList)),
   Item(Truncated(Stringify(SampleList))), Item(<<"null">>)}

Init ==
  /\ storage \in InitialSlots
  /\ \E r \in {LoadTodos(storage)} :
     /\ error = r.error
     /\ phase = IF r.error = "none" THEN "mounted" ELSE "crashed"
     /\ todos = r.val
     /\ effectPending = (r.error = "none")
     /\ issued = Ids(r.val)
  /\ inputValue = <<>>
  /\ inputDate = <<>>
  /\ todosQueue = <<>>
  /\ inputValueQueue = <<>>
  /\ inputDateQueue = <<>>
  /\ ignored = FALSE

\* the page is loaded again: every hook is initialised anew, the slot is kept
Reload ==
  /\ \E r \in {LoadTodos(storage)} :
     /\ error' = r.error
     /\ phase' = IF r.error = "none" THEN "mounted" ELSE "crashed"
     /\ todos' = r.val
     /\ effectPending' = (r.error = "none")
     /\ issued' = issued \cup Ids(r.val)
  /\ inputValue' = <<>>
  /\ inputDate' = <<>>
  /\ todosQueue' = <<>>
  /\ inputValueQueue' = <<>>
  /\ inputDateQueue' = <<>>
  /\ ignored' = FALSE
  /\ UNCHANGED storage

\* ---- handlers --------------------------------------------------------------
Dirty == todosQueue # <<>> \/ inputValueQueue # <<>> \/ inputDateQueue # <<>>

\* a change event's update is queued and not yet rendered
Typing == todosQueue = <<>> /\ Dirty

\* Every handler below runs with the effect of the last render flushed: React
\* flushes the passive effects of a render before it handles the next
\* discrete event (click, keydown, change).  No handler reads the slot.

\* onChange of the text input.  Bound: a change event is rendered before the
\* next event is handled.
SetInputValue(v) ==
  /\ phase = "mounted"
  /\ ~Dirty
  /\ ~effectPending
  /\ inputValueQueue' = Append(inputValueQueue, v)
  /\ ignored' = FALSE
  /\ UNCHANGED <<storage, phase, error, todos, inputValue, inputDate, todosQueue,
                 inputDateQueue, effectPending, issued>>

\* onChange of the date input
SetInputDate(d) ==
  /\ phase = "mounted"
  /\ ~Dirty
  /\ ~effectPending
  /\ inputDateQueue' = Append(inputDateQueue, d)
  /\ ignored' = FALSE
  /\ UNCHANGED <<storage, phase, error, todos, inputValue, inputDate, todosQueue,
                 inputValueQueue, effectPending, issued>>

\* the Add button, or Enter in the text input
AddTodo ==
  /\ phase = "mounted"
  /\ ~Typing
  /\ ~effectPending
  /\ LET text == Trim(inputValue) IN
     IF text = <<>>
     THEN /\ ignored' = TRUE
          /\ UNCHANGED <<todosQueue, inputValueQueue, inputDateQueue, issued>>
     ELSE /\ Len(todosQueue) < MaxPending
          /\ IDs \ issued # {}
          /\ todosQueue' =
               Append(todosQueue,
                      SetUpdate(AddTo(todos, NewTask(RandomUUID, text, inputDate))))
          /\ issued' = issued \cup {RandomUUID}
          /\ inputValueQueue' = Append(inputValueQueue, <<>>)
          /\ inputDateQueue' = Append(inputDateQueue, <<>>)
          /\ ignored' = FALSE
  /\ UNCHANGED <<storage, phase, error, todos, inputValue, inputDate, effectPending>>

\* the checkbox of a rendered task
ToggleTodo(id) ==
  /\ phase = "mounted"
  /\ ~Typing
  /\ ~effectPending
  /\ id \in Ids(todos)
  /\ Len(todosQueue) < MaxPending
  /\ todosQueue' = Append(todosQueue, ToggleUpdate(id))
  /\ ignored' = FALSE
  /\ UNCHANGED <<storage, phase, error, todos, inputValue, inputDate,
                 inputValueQueue, inputDateQueue, effectPending, issued>>

\* the delete button of a rendered task
DeleteTodo(id) ==
  /\ phase = "mounted"
  /\ ~Typing
  /\ ~effectPending
  /\ id \in Ids(todos)
  /\ Len(todosQueue) < MaxPending
  /\ todosQueue' = Append(todosQueue, DeleteUpdate(id))
  /\ ignored' = FALSE
  /\ UNCHANGED <<storage, phase, error, todos, inputValue, inputDate,
                 inputValueQueue, inputDateQueue, effectPending, issued>>

\* ---- React -----------------------------------------------------------------
\* the effect with dependency [] in place of [todos]
TodosChangedNever(queue) == FALSE

\* the effect's dependency [todos]: every queued setTodos call yields a new
\* array, so the rendered todos differs from the last one by Object.is
TodosChanged(queue) == queue # <<>>

\* a re-render: every hook reduces its queue; a new todos array schedules the
\* effect.  Effects of the previous render are flushed first.
Render ==
  /\ phase = "mounted"
  /\ Dirty
  /\ ~effectPending
  /\ todos' = Reduce(todos, todosQueue)
  /\ inputValue' = LastOr(inputValue, inputValueQueue)
  /\ inputDate' = LastOr(inputDate, inputDateQueue)
  /\ effectPending' = TodosChanged(todosQueue)
  /\ todosQueue' = <<>>
  /\ inputValueQueue' = <<>>
  /\ inputDateQueue' = <<>>
  /\ ignored' = FALSE
  /\ UNCHANGED <<storage, phase, error, issued>>

\* localStorage.setItem("todos", text)
SetItem(slot, text) == Item(text)

\* useEffect(() => { localStorage.setItem("todos", JSON.stringify(todos)) },
\* [todos]); setItem throws when the quota is exceeded or storage is
\* unavailable, nothing catches it, and React unmounts the tree
RunEffect ==
  /\ phase = "mounted"
  /\ effectPending
  /\ \E writable \in BOOLEAN :
       IF writable
       THEN /\ storage' = SetItem(storage, Stringify(todos))
            /\ effectPending' = FALSE
            /\ ignored' = FALSE
            /\ UNCHANGED <<phase, error, todos, inputValue, inputDate, todosQueue,
                           inputValueQueue, inputDateQueue, issued>>
       ELSE /\ phase' = "crashed"
            /\ error' = "QuotaExceededError"
            /\ todos' = <<>>
            /\ inputValue' = <<>>
            /\ inputDate' = <<>>
            /\ todosQueue' = <<>>
            /\ inputValueQueue' = <<>>
            /\ inputDateQueue' = <<>>
            /\ effectPending' = FALSE
            /\ ignored' = FALSE
            /\ UNCHANGED <<storage, issued>>

Next ==
  \/ \E v \in Inputs : SetInputValue(v)
  \/ \E d \in DateInputs : SetInputDate(d)
  \/ AddTodo
  \/ \E id \in IDs : ToggleTodo(id)
  \/ \E id \in IDs : DeleteTodo(id)
  \/ Render
  \/ RunEffect
  \/ Reload

Spec == Init /\ [][Next]_vars

\* ---- properties -------------------------------------------------------------
\* every operation issued has been rendered and its effect flushed
Quiescent == phase = "mounted" /\ ~Dirty /\ ~effectPending

\* the list after the first k queued setTodos calls
Prefix(k) == Reduce(todos, SubSeq(todosQueue, 1, k))

Distinct(l) == \A i, j \in 1..Len(l) : i # j => l[i].id # l[j].id

IsBlank(s) == \A i \in 1..Len(s) : s[i] = " "

\* this step queues the setTodos call of addTodo
AppendsSet ==
  /\ Len(todosQueue') = Len(todosQueue) + 1
  /\ todosQueue'[Len(todosQueue')].kind = "set"

\* C1: once an operation is complete (rendered, effect flushed), the slot
\* holds the serialization of exactly the list in memory.
C1_SlotHoldsCurrentList == Quiescent => storage = Item(Stringify(todos))

C1_Witness ==
  Quiescent /\ Len(todos) = 2 /\ storage = Item(Stringify(todos))

\* C2: whatever the slot holds, initialization does not raise.
C2_LoadNeverRaises == error \notin {"SyntaxError", "TypeError"}

\* the operations applied one at a time, each to the result of the one before
RECURSIVE Sequential(_, _)
Sequential(prev, queue) ==
  IF queue = <<>> THEN prev
  ELSE LET u == Head(queue) IN
       Sequential(IF u.kind = "set" THEN Append(prev, u.val[Len(u.val)])
                  ELSE ApplyUpdate(prev, u),
                  Tail(queue))

\* C3: the list the next render commits is the one obtained by applying the
\* issued operations one at a time, in issue order.
C3_OperationsAppliedInOrder ==
  phase = "mounted" => Reduce(todos, todosQueue) = Sequential(todos, todosQueue)

\* C4: a failed write of the slot is swallowed; the component stays mounted.
C4_WriteFailureSwallowed == error # "QuotaExceededError"

\* the ids in the list are pairwise distinct, in the committed list and after
\* every queued operation
C5_Distinct ==
  Distinct(todos) /\ \A k \in 1..Len(todosQueue) : Distinct(Prefix(k))

\* the id a new task gets was never issued before
C5_Fresh ==
  AppendsSet =>
    LET v == todosQueue'[Len(todosQueue')].val IN v[Len(v)].id \notin issued

\* C5: ids are pairwise distinct in every state, and every add issues an id
\* never issued before (tasks since removed included).
C5_IdsUnique == []C5_Distinct /\ [][C5_Fresh]_vars

C5_Witness ==
  /\ Quiescent
  /\ Len(todos) = 1
  /\ todos[1].id = <<"2">>
  /\ issued = {<<"1">>, <<"2">>}

\* C6: an add with a text that is not blank makes the list one longer, the new
\* task last with the trimmed text and completed = false, every earlier task
\* in place and unchanged.
C6_AddAppendsOne ==
  phase = "mounted" =>
    \A k \in 1..Len(todosQueue) :
      todosQueue[k].kind = "set" =>
        LET prev == Prefix(k - 1)
            next == Prefix(k)
        IN /\ Len(next) = Len(prev) + 1
           /\ SubSeq(next, 1, Len(prev)) = prev
           /\ next[Len(next)].text = Trim(inputValue)
           /\ next[Len(next)].completed = FALSE

\* C7: addTodo returns early only on a blank text and then changes nothing;
\* on a blank text no setTodos call is queued and nothing is raised.
C7_BlankAddIsNoOp ==
  [][/\ ignored' =>
          /\ IsBlank(inputValue)
          /\ UNCHANGED <<storage, phase, error, todos, inputValue, inputDate,
                         todosQueue, inputValueQueue, inputDateQueue,
                         effectPending, issued>>
     /\ (phase = "mounted" /\ IsBlank(inputValue)) => ~AppendsSet]_vars

C7_Witness ==
  ignored /\ inputValue = <<" ">> /\ Len(todos) = 1 /\ phase = "mounted"

\* C8: a toggle flips the completed flag of the task with that id and nothing
\* else; applied twice it restores the list; on an id not in the list it
\* leaves the list as it is.
C8_ToggleFlipsOne ==
  phase = "mounted" =>
    \A k \in 1..Len(todosQueue) :
      todosQueue[k].kind = "toggle" =>
        LET prev == Prefix(k - 1)
            next == Prefix(k)
            id == todosQueue[k].id
        IN /\ Len(next) = Len(prev)
           /\ \A i \in 1..Len(prev) :
                /\ next[i].id = prev[i].id
                /\ next[i].text = prev[i].text
                /\ next[i].date = prev[i].date
                /\ next[i].completed = IF prev[i].id = id THEN ~prev[i].completed
                                       ELSE prev[i].completed
           /\ ApplyUpdate(next, todosQueue[k]) = prev
           /\ (id \notin Ids(prev) => next = prev)

C8_Witness ==
  /\ phase = "mounted"
  /\ \E k \in 1..Len(todosQueue) :
       /\ todosQueue[k].kind = "toggle"
       /\ Len(Prefix(k - 1)) = 2
       /\ todosQueue[k].id \in Ids(Prefix(k - 1))

C10_ReloadRestoresList ==
  [][(Quiescent /\ (effectPending' \/ phase' # "mounted"))
       => (phase' = "mounted" /\ todos' = todos)]_vars

C10_Witness ==
  /\ phase = "mounted"
  /\ ~Dirty
  /\ effectPending
  /\ Len(todos) = 2
  /\ todos[2].text = <<Q, " ", Q>>
  /\ storage = Item(Stringify(todos))

====
